---- MODULE Spec2Model ----
(***************************************************************************)
(* WorkerManager (sanic/worker/manager.py): the supervisor of a fixed set  *)
(* of worker processes.  The manager is single-threaded; its position is   *)
(* pc.  The worker processes, the senders on the control channel and the   *)
(* delivery of SIGINT/SIGTERM are the environment.                         *)
(*                                                                         *)
(* Strings that the manager parses (control messages) are sequences of     *)
(* tokens: the separators ":" "," " " are tokens of their own and every    *)
(* other token is a run of characters holding no separator.  The empty     *)
(* sequence stands for the falsy messages None and "".                     *)
(***************************************************************************)
EXTENDS Naturals, Sequences, FiniteSets, TLC

\* ---------------------------------------------------------------- bounds
MaxServers == 2         \* largest `number` handed to the constructor
MaxManaged == 1         \* workers registered by manage() after construction
MaxSends == 2           \* messages the external senders publish
MaxSignals == 1         \* deliveries of SIGINT / SIGTERM
MaxCrashes == 1         \* processes that exit unasked while run() monitors
MaxTerminateCalls == 2  \* calls of terminate(): run's own and the host's
MaxJoinRestarts == 1    \* restarts of a process made while join() runs
EarlyTicks == 1         \* commands, signals and exits reach the barrier
                        \* while misses < EarlyTicks

\* ------------------------------------------------------------- constants
THRESHOLD == 300

SERVER_LABEL == "Server"
MAIN == "Sanic-Main"
TERMINATE == <<"__TERMINATE__">>
TERMINATE_EARLY == <<"__TERMINATE_EARLY__">>
ALL_PROCESSES == <<"__ALL_PROCESSES__">>
EMPTY == <<>>

\* Optional values: None, or a value.
None == [some |-> FALSE, val |-> <<>>]
Some(v) == [some |-> TRUE, val |-> v]

Range(s) == {s[i] : i \in 1..Len(s)}

\* --------------------------------------------------------------- strings
\* str.split(sep, 1)
IndexOf(s, sep) ==
  IF \E i \in 1..Len(s) : s[i] = sep
  THEN CHOOSE i \in 1..Len(s) : s[i] = sep /\ \A j \in 1..(i - 1) : s[j] # sep
  ELSE 0

split1(s, sep) ==
  LET i == IndexOf(s, sep) IN
  IF i = 0 THEN <<s>>
  ELSE <<SubSeq(s, 1, i - 1), SubSeq(s, i + 1, Len(s))>>

\* str.split(sep): every piece, the empty ones too; "" gives [""]
RECURSIVE split(_, _)
split(s, sep) ==
  LET i == IndexOf(s, sep) IN
  IF i = 0 THEN <<s>>
  ELSE <<SubSeq(s, 1, i - 1)>> \o split(SubSeq(s, i + 1, Len(s)), sep)

\* str.strip()
RECURSIVE lstrip(_)
lstrip(s) == IF s # <<>> /\ Head(s) = " " THEN lstrip(Tail(s)) ELSE s

RECURSIVE rstrip(_)
rstrip(s) ==
  IF s # <<>> /\ s[Len(s)] = " " THEN rstrip(SubSeq(s, 1, Len(s) - 1)) ELSE s

strip(s) == rstrip(lstrip(s))

\* ----------------------------------------------------------------- state
VARIABLES
  pc,            \* position of the manager
  num_server, transient, durable, terminated,
  handlers,      \* shutdown_signal is installed for SIGINT and SIGTERM
  worker_state,  \* the shared state table: key -> record
  channel,       \* the control channel: publisher end -> subscriber end
  misses, monitor_msg,      \* locals of wait_for_ack
  join_i, joined,           \* join(): position in the pass, pids joined
  proc,          \* the WorkerProcess objects, by name
  sent, signals, \* messages published from outside, signals delivered
  crashes,       \* processes that exited unasked before the join
  kill_calls, terminate_calls, shutdown_calls,
  reemitted,     \* messages wait_for_ack published again
  received,      \* messages the monitor loop received, in order
  restart_calls, last_restart, \* restart(): calls, and the latest one
  sent_log,      \* the messages published from outside, in order
  join_restarts  \* restarts of a process made while join() runs

vars == <<pc, num_server, transient, durable, terminated, handlers,
          worker_state, channel, misses, monitor_msg, join_i, joined, proc,
          sent, signals, crashes, kill_calls, terminate_calls,
          shutdown_calls, reemitted, received, restart_calls, last_restart,
          sent_log, join_restarts>>

\* Groups of variables, for the frame conditions.
fields == <<num_server, transient, durable, handlers>>
outside == <<sent, signals, crashes, sent_log, join_restarts>>
ack_locals == <<misses, monitor_msg>>
join_locals == <<join_i, joined>>
restarts == <<restart_calls, last_restart>>

\* ------------------------------------------------- Worker, WorkerProcess
ProcessStates ==
  <<"IDLE", "RESTARTING", "STARTING", "STARTED", "ACKED", "JOINED",
    "TERMINATED">>

Rank(st) == CHOOSE i \in 1..Len(ProcessStates) : ProcessStates[i] = st

ProcessName(ident, k) == "Sanic-" \o ident \o "-" \o ToString(k)

Worker(ident) == [ident |-> ident, processes |-> <<ProcessName(ident, 0)>>]

WorkerProcess ==
  [status |-> "unstarted", state |-> "IDLE",
   terminates |-> 0,    \* terminate() requests received
   by_terminate |-> 0,  \* those of them that WorkerManager.terminate issued
   kills |-> 0]

\* is_alive()
is_alive(p) == proc[p].status = "running"

\* ------------------------------------------------------------- accessors
workers == transient \o durable

RECURSIVE Flatten(_)
Flatten(ws) ==
  IF ws = <<>> THEN <<>> ELSE Head(ws).processes \o Flatten(Tail(ws))

processes == Flatten(workers)

transient_processes == Flatten(transient)

\* ------------------------------------------------------ _all_workers_ack
\* dict.get(key) == value, and the truth of dict.get(key)
GetEq(rec, key, v) == key \in DOMAIN rec /\ rec[key] = v

RECURSIVE acked_of(_, _)
acked_of(ws, keys) ==
  IF keys = {} THEN <<>>
  ELSE LET k == CHOOSE x \in keys : TRUE IN
       (IF GetEq(ws[k], "server", TRUE)
        THEN <<GetEq(ws[k], "state", "ACKED")>>
        ELSE <<>>) \o acked_of(ws, keys \ {k})

all(seq) == \A i \in 1..Len(seq) : seq[i]

MutAllWorkersAckNoCount ==
  all(acked_of(worker_state, DOMAIN worker_state))

_all_workers_ack ==
  LET acked == acked_of(worker_state, DOMAIN worker_state) IN
  all(acked) /\ Len(acked) = num_server

\* ------------------------------------------------------------------ Init
Init ==
  /\ pc = "new"
  /\ num_server = 0
  /\ transient = <<>>
  /\ durable = <<>>
  /\ terminated = FALSE
  /\ handlers = FALSE
  /\ worker_state = [k \in {} |-> [pid |-> 0]]
  /\ channel = <<>>
  /\ misses = 0
  /\ monitor_msg = EMPTY
  /\ join_i = 0
  /\ joined = {}
  /\ proc = [p \in {} |-> WorkerProcess]
  /\ sent = 0
  /\ signals = 0
  /\ crashes = 0
  /\ kill_calls = 0
  /\ terminate_calls = 0
  /\ shutdown_calls = 0
  /\ reemitted = {}
  /\ received = <<>>
  /\ restart_calls = 0
  /\ last_restart = [process_names |-> None, reloaded_files |-> None,
                     restarted |-> <<>>]
  /\ sent_log = <<>>
  /\ join_restarts = 0

\* -------------------------------------------------------------- __init__
\* no_workers, never refusing a number.
MutNoWorkersUnchecked(number) == FALSE

\* if number == 0: raise RuntimeError
no_workers(number) == number = 0

\* The identities, counted from one.
MutServerIdentsFromOne(number) ==
  [i \in 1..number |-> SERVER_LABEL \o "-" \o ToString(i)]

\* f"{WorkerProcess.SERVER_LABEL}-{i}" for i in range(number)
server_idents(number) ==
  [i \in 1..number |-> SERVER_LABEL \o "-" \o ToString(i - 1)]

Construct(number) ==
  /\ pc = "new"
  /\ num_server' = number
  /\ durable' = <<>>
  /\ worker_state' = (MAIN :> [pid |-> 1]) @@ worker_state
  /\ terminated' = FALSE
  /\ IF no_workers(number)
     THEN /\ pc' = "failed"
          /\ transient' = <<>>
          /\ UNCHANGED <<proc, handlers>>
     ELSE /\ transient' =
               [i \in 1..number |-> Worker(server_idents(number)[i])]
          /\ proc' = [p \in Range(Flatten(transient')) |-> WorkerProcess]
          /\ handlers' = TRUE
          /\ pc' = "ready"
  /\ UNCHANGED <<channel, kill_calls, terminate_calls, shutdown_calls,
                 reemitted, received, outside, ack_locals, join_locals,
                 restarts>>

\* ---------------------------------------------------------------- manage
\* Worker(...) creates the worker's process; nothing is started.
manage(ident, is_transient) ==
  /\ IF is_transient
     THEN transient' = Append(transient, Worker(ident)) /\ durable' = durable
     ELSE durable' = Append(durable, Worker(ident)) /\ transient' = transient
  /\ proc' = (ProcessName(ident, 0) :> WorkerProcess) @@ proc

\* The host registers one more worker between construction and run().
Manage(is_transient) ==
  /\ pc = "ready"
  /\ Len(workers) - num_server < MaxManaged
  /\ manage("Aux-" \o ToString(Len(workers) - num_server), is_transient)
  /\ UNCHANGED <<pc, num_server, terminated, handlers, worker_state, channel,
                 kill_calls, terminate_calls, shutdown_calls, reemitted,
                 received, outside, ack_locals, join_locals, restarts>>

\* ----------------------------------------------------------------- start
\* run(): start(), then monitor() enters wait_for_ack with misses = 0.
Start ==
  /\ pc = "ready"
  /\ proc' = [p \in DOMAIN proc |->
                [proc[p] EXCEPT !.status = "running", !.state = "STARTED"]]
  /\ misses' = 0
  /\ pc' = "ack"
  /\ UNCHANGED <<terminated, worker_state, channel, monitor_msg, kill_calls,
                 terminate_calls, shutdown_calls, reemitted, received,
                 fields, outside, join_locals, restarts>>

\* -------------------------------------------------------- control channel
\* monitor_publisher.send(message): what the publisher end sends, the
\* subscriber end receives, in the order sent.
send(message) == channel' = Append(channel, message)

\* ------------------------------------------------------------------ kill
\* os.kill(pid, SIGKILL) raises when the pid names no process: the process
\* was never started (pid None) or has exited and been reaped.
NoPid(p) == proc[p].status \in {"unstarted", "reaped"}

\* The first process at which os.kill raises; Len + 1 when none does.
kill_stop ==
  LET ps == processes IN
  IF \E i \in 1..Len(ps) : NoPid(ps[i])
  THEN CHOOSE i \in 1..Len(ps) :
         NoPid(ps[i]) /\ \A j \in 1..(i - 1) : ~NoPid(ps[j])
  ELSE Len(processes) + 1

\* kill(): pc "killed" is ServerKilled leaving run(); pc "crashed" is the
\* exception of os.kill leaving run().
kill ==
  LET ps == processes
      hit == {ps[i] : i \in 1..(kill_stop - 1)} IN
  /\ proc' = [p \in DOMAIN proc |->
                IF p \in hit
                THEN [proc[p] EXCEPT !.kills = @ + 1, !.status = "zombie"]
                ELSE proc[p]]
  /\ kill_calls' = kill_calls + 1
  /\ pc' = IF kill_stop > Len(ps) THEN "killed" ELSE "crashed"

\* ---------------------------------------------------------- wait_for_ack
\* Miss, giving up the wait at the threshold instead of killing.
MutMissReturns(m) ==
  /\ misses' = m + 1
  /\ pc' = IF m + 1 > THRESHOLD THEN "monitor" ELSE "ack"
  /\ UNCHANGED <<proc, kill_calls>>

\* Miss, killing one tick early.
MutMissAtThreshold(m) ==
  /\ misses' = m + 1
  /\ IF m + 1 >= THRESHOLD
     THEN kill
     ELSE pc' = "ack" /\ UNCHANGED <<proc, kill_calls>>

\* misses += 1; if misses > THRESHOLD: kill()       (m: misses before)
Miss(m) ==
  /\ misses' = m + 1
  /\ IF m + 1 > THRESHOLD
     THEN kill
     ELSE pc' = "ack" /\ UNCHANGED <<proc, kill_calls>>

\* The loop head: the quorum test, then poll(0.1) and recv().
WaitForAckPoll ==
  /\ pc = "ack"
  /\ IF _all_workers_ack
     THEN /\ pc' = "monitor"
          /\ misses' = 0
          /\ UNCHANGED <<channel, monitor_msg, proc, kill_calls>>
     ELSE IF channel # <<>>
          THEN /\ monitor_msg' = Head(channel)
               /\ channel' = Tail(channel)
               /\ pc' = "ack_recv"
               /\ UNCHANGED <<misses, proc, kill_calls>>
          ELSE /\ Miss(misses)
               /\ UNCHANGED <<channel, monitor_msg>>
  /\ UNCHANGED <<terminated, worker_state, terminate_calls, shutdown_calls,
                 reemitted, received, fields, outside, join_locals, restarts>>

\* republish, dropping the message.
MutRepublishDropped(message) == channel' = channel

\* self.monitor_publisher.send(monitor_msg), in wait_for_ack
republish(message) == send(message)

\* The tick count with which the early termination goes on to the test of
\* the threshold: misses = self.THRESHOLD.
MutEarlyMisses == misses

early_misses == THRESHOLD

\* The message in hand: published again, or the early termination.
WaitForAckHandle ==
  /\ pc = "ack_recv"
  /\ IF monitor_msg # TERMINATE_EARLY
     THEN /\ republish(monitor_msg)
          /\ reemitted' = reemitted \cup {monitor_msg}
          /\ pc' = "ack"
          /\ monitor_msg' = EMPTY
          /\ UNCHANGED <<misses, proc, kill_calls>>
     ELSE /\ Miss(early_misses)
          /\ UNCHANGED <<channel, reemitted, monitor_msg>>
  /\ UNCHANGED <<terminated, worker_state, terminate_calls, shutdown_calls,
                 received, fields, outside, join_locals, restarts>>

\* -------------------------------------------------------------- shutdown
\* shutdown, terminating every process, alive or not.
MutShutdownAll ==
  /\ proc' = [p \in DOMAIN proc |->
                IF p \in Range(processes)
                THEN [proc[p] EXCEPT !.terminates = @ + 1]
                ELSE proc[p]]
  /\ shutdown_calls' = shutdown_calls + 1

\* shutdown, issuing no terminate request.
MutShutdownNone ==
  /\ proc' = proc
  /\ shutdown_calls' = shutdown_calls + 1

\* for process in self.processes: if process.is_alive(): process.terminate()
\* is_alive() polls the process: one that has exited is reaped by the poll.
shutdown ==
  /\ proc' = [p \in DOMAIN proc |->
                IF p \notin Range(processes) THEN proc[p]
                ELSE IF is_alive(p)
                THEN [proc[p] EXCEPT !.terminates = @ + 1]
                ELSE IF proc[p].status = "zombie"
                THEN [proc[p] EXCEPT !.status = "reaped"]
                ELSE proc[p]]
  /\ shutdown_calls' = shutdown_calls + 1

\* --------------------------------------------------------------- restart
\* `not process_names`: None and the empty list
Falsy(process_names) == ~process_names.some \/ process_names.val = <<>>

\* restart_targets, over the processes of every worker.
MutRestartEveryWorker(process_names) ==
  SelectSeq(processes,
            LAMBDA p : Falsy(process_names)
                       \/ <<p>> \in Range(process_names.val))

\* The processes restart() calls restart on, in the order of the calls.
restart_targets(process_names) ==
  SelectSeq(transient_processes,
            LAMBDA p : Falsy(process_names)
                       \/ <<p>> \in Range(process_names.val))

\* process.restart(**kwargs): the process is replaced by a fresh one.
restart(process_names, reloaded_files) ==
  LET targets == restart_targets(process_names) IN
  /\ proc' = [p \in DOMAIN proc |->
                IF p \in Range(targets)
                THEN [proc[p] EXCEPT !.status = "running",
                                     !.state = "STARTED"]
                ELSE proc[p]]
  /\ restart_calls' = restart_calls + 1
  /\ last_restart' = [process_names |-> process_names,
                      reloaded_files |-> reloaded_files,
                      restarted |-> targets]

\* --------------------------------------------------------------- monitor
\* reloaded_files of a message
reloaded_files_of(message) ==
  LET split_message == split1(message, ":") IN
  IF Len(split_message) > 1 THEN Some(split_message[2]) ELSE None

\* process_names of a message
process_names_of(message) ==
  LET split_message == split1(message, ":")
      pieces == split(split_message[1], ",")
      names == [i \in 1..Len(pieces) |-> strip(pieces[i])] IN
  IF ALL_PROCESSES \in Range(names) THEN None ELSE Some(names)

\* One turn of the loop in which poll(0.1) finds a message.
Monitor ==
  /\ pc = "monitor"
  /\ channel # <<>>
  /\ LET message == Head(channel) IN
     /\ channel' = Tail(channel)
     /\ received' = Append(received, message)
     /\ IF message = EMPTY
        THEN /\ pc' = "join"
             /\ join_i' = 1
             /\ UNCHANGED <<proc, shutdown_calls, restart_calls,
                            last_restart>>
        ELSE IF message = TERMINATE
        THEN /\ shutdown
             /\ pc' = "join"
             /\ join_i' = 1
             /\ UNCHANGED <<restart_calls, last_restart>>
        ELSE /\ restart(process_names_of(message),
                        reloaded_files_of(message))
             /\ UNCHANGED <<pc, join_i, shutdown_calls>>
  /\ UNCHANGED <<terminated, worker_state, joined, kill_calls,
                 terminate_calls, reemitted, fields, outside, ack_locals>>

\* ------------------------------------------------------- shutdown_signal
\* run() is under way.
Live == pc \in {"ack", "ack_recv", "monitor", "join", "terminate"}

\* The ticks of the barrier at which commands, signals and process exits
\* happen: the first ones.  Acknowledgements and the early termination
\* happen at every tick.
InWindow == pc \notin {"ack", "ack_recv"} \/ misses < EarlyTicks

ShutdownSignal ==
  /\ handlers
  /\ Live
  /\ InWindow
  /\ signals < MaxSignals
  /\ signals' = signals + 1
  /\ send(EMPTY)
  /\ shutdown
  /\ UNCHANGED <<pc, terminated, worker_state, sent, crashes, sent_log,
                 join_restarts, kill_calls,
                 terminate_calls, reemitted, received, fields, ack_locals,
                 join_locals, restarts>>

\* ------------------------------------------------------------------ join
\* join, returning after its first pass.
MutJoinOnePass == FALSE

\* if joined: self.join()
join_again == joined # {}

\* One process of the pass, or the end of the pass.  process.join() returns
\* once the process has exited.
Join ==
  /\ pc = "join"
  /\ IF join_i <= Len(processes)
     THEN LET p == processes[join_i] IN
          /\ IF Rank(proc[p].state) < Rank("JOINED")
             THEN /\ proc[p].status # "running"
                  /\ joined' = joined \cup {p}
                  /\ proc' = [proc EXCEPT ![p].state = "JOINED",
                                          ![p].status = "reaped"]
             ELSE UNCHANGED <<joined, proc>>
          /\ join_i' = join_i + 1
          /\ pc' = pc
     ELSE /\ IF join_again
             THEN pc' = "join" /\ join_i' = 1
             ELSE pc' = "terminate" /\ join_i' = 0
          /\ joined' = {}
          /\ proc' = proc
  /\ UNCHANGED <<terminated, worker_state, channel, kill_calls,
                 terminate_calls, shutdown_calls, reemitted, received,
                 fields, outside, ack_locals, restarts>>

\* ------------------------------------------------------------- terminate
\* terminate, without the guard of the terminated flag.
MutTerminateUnguarded ==
  /\ proc' = [p \in DOMAIN proc |->
                IF p \in Range(processes)
                THEN [proc[p] EXCEPT !.terminates = @ + 1,
                                     !.by_terminate = @ + 1]
                ELSE proc[p]]
  /\ terminated' = TRUE

\* terminate, passing over the processes that shutdown() has asked already.
MutTerminateSkipsAsked ==
  /\ proc' = [p \in DOMAIN proc |->
                IF ~terminated /\ p \in Range(processes)
                   /\ proc[p].terminates = 0
                THEN [proc[p] EXCEPT !.terminates = @ + 1,
                                     !.by_terminate = @ + 1]
                ELSE proc[p]]
  /\ terminated' = TRUE

terminate ==
  /\ proc' = [p \in DOMAIN proc |->
                IF ~terminated /\ p \in Range(processes)
                THEN [proc[p] EXCEPT !.terminates = @ + 1,
                                     !.by_terminate = @ + 1]
                ELSE proc[p]]
  /\ terminated' = TRUE

\* run() calls terminate() last; the host may call it again afterwards.
Terminate ==
  /\ pc \in {"terminate", "done"}
  /\ terminate_calls < MaxTerminateCalls
  /\ terminate
  /\ terminate_calls' = terminate_calls + 1
  /\ pc' = "done"
  /\ UNCHANGED <<worker_state, channel, kill_calls, shutdown_calls,
                 reemitted, received, fields, outside, ack_locals,
                 join_locals, restarts>>

\* ----------------------------------------------------------- environment
\* The messages the senders publish.
Messages ==
  { EMPTY, TERMINATE, TERMINATE_EARLY,
    <<"__ALL_PROCESSES__", ":", "changed.py">>,
    <<"Sanic-Server-0-0">>,
    <<" ", "Sanic-Server-1-0", " ", ",", "Sanic-Aux-0-0", ":", "a", ":",
      "b">>,
    <<":", "changed.py">> }

\* Those of them published while the barrier waits: wait_for_ack tells the
\* early termination from every other message and looks no further.
BarrierMessages ==
  { TERMINATE, TERMINATE_EARLY,
    <<"__ALL_PROCESSES__", ":", "changed.py">>,
    <<"Sanic-Server-0-0">> }

Send(message) ==
  /\ pc \in {"ack", "ack_recv", "monitor"}
  /\ pc = "monitor" \/ message \in BarrierMessages
  /\ (message = TERMINATE_EARLY /\ sent = 0) \/ InWindow
  /\ sent < MaxSends
  /\ sent' = sent + 1
  /\ sent_log' = Append(sent_log, message)
  /\ send(message)
  /\ UNCHANGED <<pc, terminated, worker_state, proc, signals, crashes,
                 join_restarts,
                 kill_calls, terminate_calls, shutdown_calls, reemitted,
                 received, fields, ack_locals, join_locals, restarts>>

\* A running worker process publishes its record.  The processes of
\* transient workers run the server and carry the flag: they publish their
\* start, then their acknowledgement.  The others publish one record.
WorkerPublish(p) ==
  /\ pc \in {"ack", "ack_recv"}
  /\ is_alive(p)
  /\ LET flag == p \in Range(transient_processes)
         state == IF p \in DOMAIN worker_state \/ ~flag
                  THEN "ACKED" ELSE "STARTED" IN
     /\ ~GetEq(IF p \in DOMAIN worker_state THEN worker_state[p]
               ELSE [pid |-> 0], "state", "ACKED")
     /\ worker_state' =
          (p :> [pid |-> 2, server |-> flag, state |-> state]) @@ worker_state
  /\ UNCHANGED <<pc, terminated, channel, proc, kill_calls, terminate_calls,
                 shutdown_calls, reemitted, received, fields, outside,
                 ack_locals, join_locals, restarts>>

\* A running worker process exits: asked to (a terminate request), at the
\* end of its life (the manager is joining), or unasked.
ProcessExit(p) ==
  /\ Live
  /\ InWindow
  /\ is_alive(p)
  /\ proc' = [proc EXCEPT ![p].status = "zombie"]
  /\ IF proc[p].terminates > 0 \/ pc \in {"join", "terminate"}
     THEN crashes' = crashes
     ELSE crashes < MaxCrashes /\ crashes' = crashes + 1
  /\ UNCHANGED <<pc, terminated, worker_state, channel, sent, signals,
                 sent_log, join_restarts, kill_calls, terminate_calls, shutdown_calls, reemitted,
                 received, fields, ack_locals, join_locals, restarts>>

\* A transient process is restarted by another thread of the host while
\* a pass of join() is under way: the process runs again, below JOINED.
ConcurrentRestart(p) ==
  /\ pc = "join"
  /\ join_i <= Len(processes)
  /\ p \in Range(transient_processes)
  /\ join_restarts < MaxJoinRestarts
  /\ join_restarts' = join_restarts + 1
  /\ proc' = [proc EXCEPT ![p].status = "running", ![p].state = "STARTED"]
  /\ UNCHANGED <<pc, terminated, worker_state, channel, sent, signals,
                 crashes, sent_log, kill_calls, terminate_calls,
                 shutdown_calls, reemitted, received, fields, ack_locals,
                 join_locals, restarts>>

Next ==
  \/ \E number \in 0..MaxServers : Construct(number)
  \/ \E is_transient \in BOOLEAN : Manage(is_transient)
  \/ Start
  \/ WaitForAckPoll
  \/ WaitForAckHandle
  \/ Monitor
  \/ Join
  \/ Terminate
  \/ ShutdownSignal
  \/ \E message \in Messages : Send(message)
  \/ \E p \in DOMAIN proc : WorkerPublish(p)
  \/ \E p \in DOMAIN proc : ProcessExit(p)
  \/ \E p \in DOMAIN proc : ConcurrentRestart(p)

Spec == Init /\ [][Next]_vars

\* The manager's thread keeps running: a step of run() that can be taken
\* is taken.  Nothing is assumed of the workers, the senders or the signals.
FairSpec ==
  /\ Spec
  /\ WF_vars(WaitForAckPoll)
  /\ WF_vars(WaitForAckHandle)
  /\ WF_vars(Monitor)
  /\ WF_vars(Join)

\* ----------------------------------------------------------------------
\* The claims
\* ----------------------------------------------------------------------
InBarrier == pc \in {"ack", "ack_recv"}
AfterBarrier == pc \in {"monitor", "join", "terminate", "done"}
Constructed == pc \notin {"new", "failed"}

\* The records of the table that carry the service-participant flag.
Flagged ==
  {k \in DOMAIN worker_state :
     "server" \in DOMAIN worker_state[k] /\ worker_state[k].server = TRUE}

Acknowledged(k) ==
  "state" \in DOMAIN worker_state[k] /\ worker_state[k].state = "ACKED"

Quorum ==
  /\ \A k \in Flagged : Acknowledged(k)
  /\ Cardinality(Flagged) = num_server

\* C1: _all_workers_ack is true exactly when every flagged record of the
\* table is acknowledged and the flagged records number num_server; the
\* supervisor's own record carries no flag and is not counted.
C1_QuorumPredicate ==
  pc # "new" =>
    /\ _all_workers_ack <=> Quorum
    /\ MAIN \in DOMAIN worker_state
    /\ MAIN \notin Flagged

\* C1 witness: more flagged records than num_server, every one of them
\* acknowledged, and the predicate is false.
C1_Witness ==
  /\ pc = "ack"
  /\ Cardinality(Flagged) > num_server
  /\ \A k \in Flagged : Acknowledged(k)
  /\ ~_all_workers_ack

\* C2: wait_for_ack returns normally only from a state in which the quorum
\* holds, and the monitor loop has received no message and dispatched no
\* restart before wait_for_ack has returned.
C2_NotLiveEarly ==
  /\ [][InBarrier /\ ~InBarrier' =>
          \/ pc' = "monitor" /\ Quorum
          \/ pc' \in {"killed", "crashed"} /\ kill_calls' = kill_calls + 1]_vars
  /\ [](received # <<>> \/ restart_calls > 0 => AfterBarrier)

\* C2 witness: a restart dispatched by the monitor loop, after the barrier.
C2_Witness ==
  /\ pc = "monitor"
  /\ restart_calls > 0
  /\ Len(received) > 0
  /\ Quorum

\* C3: the barrier does not wait for ever: it returns, or kill is invoked.
C3_BarrierEnds == InBarrier ~> (pc = "monitor" \/ kill_calls > 0)

\* No message was ever published on the control channel.
NoMessage == sent = 0 /\ signals = 0

\* C4: with no message ever published and no quorum, kill is invoked once,
\* by the poll that takes misses from THRESHOLD to THRESHOLD + 1 and by no
\* earlier one, and ServerKilled leaves run(): nothing runs after it.
C4_KillAfterThreshold ==
  /\ [][NoMessage /\ kill_calls' # kill_calls =>
          /\ kill_calls = 0 /\ kill_calls' = 1
          /\ misses = THRESHOLD /\ misses' = THRESHOLD + 1
          /\ ~Quorum
          /\ pc' = "killed"]_vars
  /\ [](NoMessage /\ InBarrier => misses <= THRESHOLD /\ kill_calls = 0)
  /\ [][pc = "killed" => pc' = "killed"]_vars

\* C4 witness: the kill of the 301st empty poll.
C4_Witness ==
  /\ pc = "killed"
  /\ NoMessage
  /\ misses = THRESHOLD + 1
  /\ kill_calls = 1
  /\ \A p \in Range(processes) : proc[p].kills = 1

\* C5: the early termination, once received by wait_for_ack, is followed by
\* kill as the manager's next step, whatever the miss counter: no poll
\* comes between and the threshold is not waited for.
C5_EarlyTerminationKills ==
  [][pc = "ack_recv" /\ monitor_msg = TERMINATE_EARLY /\ pc' # pc =>
       /\ kill_calls' = kill_calls + 1
       /\ pc' \in {"killed", "crashed"}
       /\ channel' = channel]_vars

\* C5 witness: the kill that follows an early termination received before
\* any tick was missed.
C5_Witness ==
  /\ pc = "killed"
  /\ monitor_msg = TERMINATE_EARLY
  /\ kill_calls = 1
  /\ sent = 1 /\ signals = 0

\* C6, as claimed: once the barrier has succeeded and the monitor loop has
\* run, the loop has received every command that wait_for_ack published
\* again.
C6_ReemittedAllHandled ==
  pc \in {"join", "terminate", "done"} =>
    \A m \in reemitted : m # EMPTY => m \in Range(received)

\* C6, amended: a message other than the early termination that
\* wait_for_ack receives is published again on the same channel as it was
\* received, and from then on it is pending on the channel or has been
\* received by the monitor loop.
C6_ReemittedNotDropped ==
  /\ [][pc = "ack_recv" /\ monitor_msg # TERMINATE_EARLY /\ pc' # pc =>
          /\ channel' = Append(channel, monitor_msg)
          /\ monitor_msg \in reemitted'
          /\ pc' = "ack"]_vars
  /\ [](\A m \in reemitted :
           \/ m \in Range(channel)
           \/ m \in Range(received)
           \/ pc = "ack_recv" /\ monitor_msg = m)

\* C6 witness: a restart command published again by the barrier and then
\* handled by the monitor loop.
C6_Witness ==
  /\ pc = "monitor"
  /\ channel = <<>>
  /\ <<"Sanic-Server-0-0">> \in reemitted
  /\ received = << <<"Sanic-Server-0-0">> >>
  /\ last_restart.restarted = <<"Sanic-Server-0-0">>

\* C7: restart calls restart on no process of a durable worker, and leaves
\* those processes as they are; with no filter it calls restart on the
\* processes of the transient workers, each once, in list order.
C7_RestartTransientOnly ==
  /\ [](\A i \in 1..Len(last_restart.restarted) :
           last_restart.restarted[i] \notin Range(Flatten(durable)))
  /\ [](restart_calls > 0 /\ Falsy(last_restart.process_names) =>
           last_restart.restarted = transient_processes)
  /\ [][restart_calls' # restart_calls =>
          /\ \A p \in Range(Flatten(durable)) : proc'[p] = proc[p]
          /\ Falsy(last_restart'.process_names) =>
                \A p \in Range(transient_processes) :
                  proc'[p].status = "running"]_vars

\* C7 witness: "__ALL_PROCESSES__:changed.py" with two transient workers
\* and a durable one.
C7_Witness ==
  /\ restart_calls > 0
  /\ last_restart.process_names = None
  /\ last_restart.reloaded_files = Some(<<"changed.py">>)
  /\ last_restart.restarted = <<"Sanic-Server-0-0", "Sanic-Server-1-0">>
  /\ Len(durable) = 1

\* The reading of a command <names>[:<payload>]: the names before the first
\* colon, comma-separated and trimmed, and the payload after it.
ColonAt(m) ==
  IF ":" \in Range(m)
  THEN CHOOSE i \in 1..Len(m) : m[i] = ":" /\ ":" \notin Range(SubSeq(m, 1, i - 1))
  ELSE 0

NamesPart(m) == IF ColonAt(m) = 0 THEN m ELSE SubSeq(m, 1, ColonAt(m) - 1)

Payload(m) ==
  IF ColonAt(m) = 0 THEN None ELSE Some(SubSeq(m, ColonAt(m) + 1, Len(m)))

Listed(m) == {strip(x) : x \in Range(split(NamesPart(m), ","))}

ExpectedTargets(m) ==
  IF ALL_PROCESSES \in Listed(m) \/ NamesPart(m) = <<>>
  THEN transient_processes
  ELSE SelectSeq(transient_processes, LAMBDA p : <<p>> \in Listed(m))

\* The monitor loop receives message m in this step.
MonitorReceives(m) ==
  /\ pc = "monitor"
  /\ channel # <<>> /\ Head(channel) = m
  /\ received' = Append(received, m)

\* C8: each command the monitor loop receives dispatches one restart, on
\* the transient processes it names, or on all of them when it names
\* "__ALL_PROCESSES__" or gives no names, and forwards its payload.
C8_RestartDispatch ==
  [][\A m \in Messages \ {EMPTY, TERMINATE} :
       MonitorReceives(m) =>
         /\ restart_calls' = restart_calls + 1
         /\ last_restart'.restarted = ExpectedTargets(m)
         /\ last_restart'.reloaded_files = Payload(m)]_vars

\* C9: the empty message ends the monitor loop and touches no process;
\* "__TERMINATE__" ends it after a terminate request to each process that
\* is alive and to no other; neither dispatches a restart, and the loop
\* that has ended receives nothing more.
C9_LoopEnds ==
  /\ [][MonitorReceives(EMPTY) =>
          /\ pc' = "join"
          /\ proc' = proc
          /\ shutdown_calls' = shutdown_calls
          /\ restart_calls' = restart_calls]_vars
  /\ [][MonitorReceives(TERMINATE) =>
          /\ pc' = "join"
          /\ shutdown_calls' = shutdown_calls + 1
          /\ \A p \in Range(processes) :
               proc'[p].terminates =
                 proc[p].terminates + (IF proc[p].status = "running" THEN 1 ELSE 0)
          /\ restart_calls' = restart_calls]_vars
  /\ [][(pc \in {"join", "terminate", "done"}) =>
          /\ received' = received
          /\ restart_calls' = restart_calls
          /\ pc' \in {"join", "terminate", "done"}]_vars

\* C9 witness: "__TERMINATE__" received while one process had exited: the
\* other got the terminate request, and a message is left on the channel.
C9_Witness ==
  /\ pc = "join"
  /\ received = <<TERMINATE>>
  /\ channel # <<>>
  /\ signals = 0
  /\ \E p, q \in Range(processes) :
       proc[p].terminates = 1 /\ proc[q].terminates = 0

\* C10: whatever the number of calls of terminate, each process has got
\* one terminate request from it once it was called and none before; a
\* call made with the flag set issues nothing, and the flag stays set.
C10_TerminateOnce ==
  /\ [](Constructed =>
          /\ terminated <=> terminate_calls > 0
          /\ \A p \in Range(processes) :
               proc[p].by_terminate = (IF terminated THEN 1 ELSE 0))
  /\ [][terminated /\ terminate_calls' # terminate_calls => proc' = proc]_vars
  /\ [][terminated => terminated']_vars

\* C10 witness: terminate called twice, with transient and durable workers.
C10_Witness ==
  /\ terminate_calls = 2
  /\ Len(transient) = 2 /\ Len(durable) = 1
  /\ \A p \in Range(processes) : proc[p].by_terminate = 1

\* C11: kill, once invoked, sends the kill signal to every process of every
\* worker and ends in ServerKilled; after it run() executes nothing more.
C11_KillCompletes ==
  /\ [][kill_calls' # kill_calls =>
          /\ \A p \in Range(processes) : proc'[p].kills = proc[p].kills + 1
          /\ pc' = "killed"]_vars
  /\ [][(pc \in {"killed", "crashed"}) =>
          /\ pc' = pc
          /\ terminate_calls' = terminate_calls
          /\ \A p \in Range(processes) : proc'[p].state = proc[p].state]_vars

\* The process that the pass of join() examines next.
Examined == processes[join_i]

BelowJoined(p) == Rank(proc[p].state) < Rank("JOINED")

InPass == pc = "join" /\ join_i <= Len(processes)
PassEnd == pc = "join" /\ join_i > Len(processes)

\* C12, as claimed: when join() returns, every process is joined, those
\* restarted while a pass was under way included.
C12_JoinFixedPoint ==
  pc = "terminate" => \A p \in Range(processes) : ~BelowJoined(p)

\* C12, amended: a pass joins each process it finds below JOINED; a pass
\* that joined a process is followed by a full pass; join() returns only
\* from the end of a pass that joined none; and when no process was
\* restarted under a pass, every process is joined when join() returns.
C12_JoinPasses ==
  /\ [][InPass /\ join_i' # join_i =>
          /\ join_i' = join_i + 1
          /\ pc' = "join"
          /\ IF BelowJoined(Examined)
             THEN /\ joined' = joined \cup {Examined}
                  /\ proc'[Examined].state = "JOINED"
             ELSE joined' = joined /\ proc' = proc]_vars
  /\ [][PassEnd /\ joined # {} /\ <<pc, join_i>>' # <<pc, join_i>> =>
          pc' = "join" /\ join_i' = 1 /\ joined' = {}]_vars
  /\ [][pc = "join" /\ pc' # "join" =>
          PassEnd /\ joined = {} /\ pc' = "terminate"]_vars
  /\ [](pc = "terminate" /\ join_restarts = 0 =>
          \A p \in Range(processes) : ~BelowJoined(p))

\* C12 witness: a process restarted under a pass before the pass reached
\* it, joined by the time join() has returned.
C12_Witness ==
  /\ pc = "terminate"
  /\ join_restarts = 1
  /\ Len(processes) = 3
  /\ \A p \in Range(processes) : ~BelowJoined(p)

\* The terminate requests a call of shutdown() issues: one to each process
\* that is alive, none to the others.
ShutdownRequests ==
  \A p \in DOMAIN proc :
    /\ proc'[p].terminates =
         proc[p].terminates + (IF proc[p].status = "running" THEN 1 ELSE 0)
    /\ proc'[p].kills = proc[p].kills
    /\ proc'[p].by_terminate = proc[p].by_terminate
    /\ proc'[p].state = proc[p].state

C14_ConstructsNTransient ==
  [][pc = "new" /\ pc' = "ready" =>
       /\ num_server' >= 1
       /\ Len(transient') = num_server'
       /\ \A i \in 1..Len(transient') :
            transient'[i].ident = SERVER_LABEL \o "-" \o ToString(i - 1)
       /\ \A i, j \in 1..Len(transient') :
            transient'[i].ident = transient'[j].ident => i = j
       /\ durable' = <<>>]_vars

\* C14 witness: the manager constructed with the largest N.
C14_Witness ==
  /\ pc = "ready"
  /\ num_server = MaxServers
  /\ Len(transient) = MaxServers
  /\ durable = <<>>

\* C15: construction with N = 0 fails, with no worker and no process
\* created and the signal handlers not installed, and nothing follows it.
C15_ZeroFailsEarly ==
  /\ [][pc = "new" /\ pc' # "new" /\ num_server' = 0 =>
          /\ pc' = "failed"
          /\ transient' = <<>> /\ durable' = <<>>
          /\ DOMAIN proc' = {}
          /\ handlers' = FALSE]_vars
  /\ [](pc = "failed" =>
          /\ num_server = 0
          /\ workers = <<>> /\ DOMAIN proc = {}
          /\ ~handlers /\ signals = 0)

\* C15 witness: the failed construction.
C15_Witness ==
  /\ pc = "failed"
  /\ num_server = 0
  /\ workers = <<>>
  /\ ~handlers

\* C16: a construction that fails leaves the shared state table as it was.
C16_FailedLeavesTable ==
  [][pc = "new" /\ pc' = "failed" => worker_state' = worker_state]_vars

\* C17: num_server = len(transient) after construction and from then on.
C17_ServerCountIsTransient ==
  Constructed => num_server = Len(transient)

\* C18: shutdown issues its terminate requests to the processes that are
\* alive and to no other, kills and joins nothing and leaves the terminated
\* flag as it is; the first terminate() then issues a request to every
\* process, those that shutdown has asked already included.
C18_ShutdownLeavesFlag ==
  /\ [][shutdown_calls' # shutdown_calls =>
          /\ ShutdownRequests
          /\ terminated' = terminated
          /\ terminate_calls' = terminate_calls
          /\ kill_calls' = kill_calls
          /\ joined' = joined]_vars
  /\ [][terminate_calls = 0 /\ terminate_calls' = 1 =>
          \A p \in Range(processes) :
            /\ proc'[p].terminates = proc[p].terminates + 1
            /\ proc'[p].by_terminate = 1]_vars

\* C18 witness: run() after "__TERMINATE__": a process asked to terminate
\* by shutdown and again by terminate.
C18_Witness ==
  /\ pc = "done"
  /\ received = <<TERMINATE>>
  /\ shutdown_calls = 1 /\ signals = 0
  /\ terminate_calls = 1
  /\ \A p \in Range(processes) :
       proc[p].terminates = 2 /\ proc[p].by_terminate = 1

\* A command: a message that is none of the sentinels.
Command(m) == m \notin {EMPTY, TERMINATE, TERMINATE_EARLY}

\* C19: two different commands that wait_for_ack published again are
\* received by the monitor loop in the order in which they were sent.
C19_OrderPreserved ==
  \A i, j \in 1..Len(received) :
    ( /\ i < j
      /\ Command(received[i]) /\ Command(received[j])
      /\ received[i] # received[j]
      /\ {received[i], received[j]} \subseteq reemitted )
    => \E a, b \in 1..Len(sent_log) :
         a < b /\ sent_log[a] = received[i] /\ sent_log[b] = received[j]

\* run() polls the control channel: in the barrier or in the monitor loop.
Polling == pc \in {"ack", "ack_recv", "monitor"}

\* C20: once a signal was delivered, run() leaves its polling loops.
C20_SignalHonoured == (signals > 0 /\ Polling) ~> ~Polling
====
